---- MODULE Spec2Model ----
(***************************************************************************)
(* Wireframe engine: mesh loading, mesh construction, scene set-up and the *)
(* per-frame orchestrators of src/src/core/renderHelpers.ts and            *)
(* src/unnamed/part_001, driven as src/src/index.ts drives them.           *)
(*                                                                         *)
(* Numbers.  All coordinates are integers.  A quotient the code computes   *)
(* (a screen coordinate, a polygon depth) is kept exact as a normalised    *)
(* fraction [n, d]; Math.sqrt(q) is kept exact as the record [sqrtOf |-> q]*)
(* and compared by squaring.  Angles are counted in quarter turns, so that *)
(* every rotation matrix is an integer matrix; the camera's fovYRad is     *)
(* kept as the cotangent of its half angle.  Arrays are sequences; the     *)
(* code's 0-based index i is element i+1.                                  *)
(***************************************************************************)
EXTENDS Integers, Sequences, FiniteSets, TLC

VARIABLES
  pc,        \* position of main(): "load", "loaded", "run", "failed"
  meshData,  \* the MeshData loadMesh resolved with
  mesh,      \* the Mesh built by Mesh.fromData
  scene,     \* the Scene: [camera |-> Camera, objects |-> sequence of Object3D]
  lines,     \* the segment list the last frame's projectSceneToLineSegments
             \* returned, null before the first frame
  called,    \* calls of projectSceneToPolygonWireframe since the scene last changed:
             \* "none", "once" or "again"
  out,       \* the sequence the last of these calls returned
  origin,    \* for each batch of out, the <<object, polygon>> it was built from
             \* (0-based positions in scene.objects and mesh.polygons)
  error,     \* what the catch block of main() caught, null while nothing was caught
  canvas,    \* what the canvas shows: the drawLines calls since its last clear
  pending,   \* animation frame callbacks requested and not yet run
  steps,     \* what the last run of the render callback did, in the order it did it
  json       \* the MeshJSON response.json() resolved with, null before that

vars == <<pc, meshData, mesh, scene, lines, called, out, origin,
          error, canvas, pending, steps, json>>

(***************************************************************************)
(* Bounds of the model.                                                    *)
(***************************************************************************)
MaxPolys == 2     \* polygons in the loaded mesh

(***************************************************************************)
(* Program constants.                                                      *)
(***************************************************************************)
NumObjects == 2   \* objects main() adds to the scene

(***************************************************************************)
(* JavaScript values                                                       *)
(***************************************************************************)
Null == [null |-> TRUE]

\* null where the code has an array or null (the result of
\* collectPolygonSegments, the segment list before the first frame): a value
\* that is no sequence and can be compared with a sequence of any length
NullArray == [i \in {0} |-> 0]
Undefined == [undefined |-> TRUE]

\* !v for a value that is an object, null or undefined
Falsy(v) == v \in {Null, Undefined}

\* arr[i] of a JavaScript array: undefined outside the array
At(arr, i) == IF (i + 1) \in DOMAIN arr THEN arr[i + 1] ELSE Undefined

RECURSIVE Gcd(_, _)
Gcd(a, b) == IF b = 0 THEN a ELSE Gcd(b, a % b)

Abs(a) == IF a < 0 THEN -a ELSE a

\* the quotient n / d (d # 0), exact
Frac(n, d) ==
  LET g == Gcd(Abs(n), Abs(d))
      s == IF d < 0 THEN -1 ELSE 1
  IN [n |-> (s * n) \div g, d |-> (s * d) \div g]

\* sign of a - b for two fractions
FracCmp(a, b) ==
  LET l == a.n * b.d
      r == b.n * a.d
  IN IF l < r THEN -1 ELSE IF l > r THEN 1 ELSE 0

FracLe(a, b) == FracCmp(a, b) <= 0

Max2(a, b) == IF a >= b THEN a ELSE b

\* Math.sqrt(q)
SqrtOf(q) == [sqrtOf |-> q]

\* r * k for a square root r and an integer k >= 0
SqrtTimes(r, k) == [sqrtOf |-> r.sqrtOf * k * k]

\* r * sqrt(k) for a square root r and an integer k >= 0
SqrtTimesSq(r, k) == [sqrtOf |-> r.sqrtOf * k]

\* a < -r for an integer a and a square root r
LtNegSqrt(a, r) == a < 0 /\ a * a > r.sqrtOf

(***************************************************************************)
(* Vec3, Vec4, Mat4 (rows of a 4x4 matrix)                                 *)
(***************************************************************************)
Vec3(x, y, z) == [x |-> x, y |-> y, z |-> z]

Vec4(x, y, z, w) == [x |-> x, y |-> y, z |-> z, w |-> w]

lengthSq(p) == p.x * p.x + p.y * p.y + p.z * p.z

sub(a, b) == Vec3(a.x - b.x, a.y - b.y, a.z - b.z)

cross(a, b) ==
  Vec3(a.y * b.z - a.z * b.y, a.z * b.x - a.x * b.z, a.x * b.y - a.y * b.x)

dot(a, b) == a.x * b.x + a.y * b.y + a.z * b.z

\* entry (i, j) of A . B
Entry(A, B, i, j) ==
  A[i][1] * B[1][j] + A[i][2] * B[2][j] + A[i][3] * B[3][j] + A[i][4] * B[4][j]

Row(A, B, i) == <<Entry(A, B, i, 1), Entry(A, B, i, 2), Entry(A, B, i, 3), Entry(A, B, i, 4)>>

multiply(A, B) == <<Row(A, B, 1), Row(A, B, 2), Row(A, B, 3), Row(A, B, 4)>>

transformVec4(M, v) ==
  LET row(i) == M[i][1] * v.x + M[i][2] * v.y + M[i][3] * v.z + M[i][4] * v.w
  IN Vec4(row(1), row(2), row(3), row(4))

translation(t) ==
  << <<1, 0, 0, t.x>>, <<0, 1, 0, t.y>>, <<0, 0, 1, t.z>>, <<0, 0, 0, 1>> >>

scaling(s) ==
  << <<s.x, 0, 0, 0>>, <<0, s.y, 0, 0>>, <<0, 0, s.z, 0>>, <<0, 0, 0, 1>> >>

\* cosine and sine of q quarter turns
CosQ(q) == <<1, 0, -1, 0>>[(q % 4) + 1]

SinQ(q) == <<0, 1, 0, -1>>[(q % 4) + 1]

rotationY(q) ==
  << <<CosQ(q), 0, SinQ(q), 0>>,
     <<0, 1, 0, 0>>,
     <<-SinQ(q), 0, CosQ(q), 0>>,
     <<0, 0, 0, 1>> >>

\* perspective(fovY, aspect, near, far), with cot = 1 / tan(fovY / 2); the
\* cameras and viewports of this model make every entry an integer
perspective(cot, aspect, near, far) ==
  << <<(cot * aspect.d) \div aspect.n, 0, 0, 0>>,
     <<0, cot, 0, 0>>,
     <<0, 0, -((far + near) \div (far - near)), -((2 * far * near) \div (far - near))>>,
     <<0, 0, -1, 0>> >>

(***************************************************************************)
(* Data model: Polygon, MeshJSON, MeshData, Mesh, Object3D, Camera, Scene  *)
(***************************************************************************)
Polygon(color, vertexIndices) == [color |-> color, vertexIndices |-> vertexIndices]

\* new Camera(position, orientation, fov, near, far); the orientation is a
\* yaw of camera.yaw quarter turns
Camera(position, yaw, cot, near, far) ==
  [position |-> position, yaw |-> yaw, cotHalfFovY |-> cot, near |-> near, far |-> far]

\* inverse of the camera's world transform: conjugate orientation, negated position
getViewMatrix(cam) ==
  multiply(rotationY(4 - (cam.yaw % 4)),
           translation(Vec3(-cam.position.x, -cam.position.y, -cam.position.z)))

getProjectionMatrix(cam, aspect) ==
  perspective(cam.cotHalfFovY, aspect, cam.near, cam.far)

\* new Object3D(mesh, position, rotation, scale)
Object3D(m, position, rotation, scale) ==
  [mesh |-> m, position |-> position, rotation |-> rotation, scale |-> scale]

\* Translate(position) . Rotate(rotation) . Scale(scale); only rotation.y is
\* ever set (src/src/index.ts:65), rotation.x and rotation.z stay 0
getModelMatrix(object) ==
  multiply(translation(object.position),
           multiply(rotationY(object.rotation.y), scaling(object.scale)))

(***************************************************************************)
(* projectPoint and isSphereInFrustum                                      *)
(***************************************************************************)
NaN == [nan |-> TRUE]

projectPoint(point, mvp, viewport) ==
  LET clip == transformVec4(mvp, Vec4(point.x, point.y, point.z, 1))
      behind == clip.w <= 0 \/ clip.z < -clip.w \/ clip.z > clip.w
  IN IF behind
       THEN [x |-> NaN, y |-> NaN, clipW |-> clip.w, behind |-> TRUE]
       ELSE [x |-> Frac((clip.x + clip.w) * viewport.width, 2 * clip.w),
             y |-> Frac((clip.w - clip.y) * viewport.height, 2 * clip.w),
             clipW |-> clip.w, behind |-> FALSE]

\* tanHalf = tan(fovY / 2) = 1 / cot as a fraction; the horizontal half angle
\* has tangent tanHalf * aspect; a plane through the origin with half-angle
\* tangent a / b excludes the sphere when the signed distance
\* (-z * a -+ c * b) / sqrt(a * a + b * b) is below -radius
isSphereInFrustum(centerWorld, radius, viewMatrix, cot, aspect, near, far) ==
  LET c == transformVec4(viewMatrix, Vec4(centerWorld.x, centerWorld.y, centerWorld.z, 1))
      va == 1
      vb == cot
      ha == aspect.n
      hb == aspect.d * cot
      side(a, b, coord) ==
        LtNegSqrt(-c.z * a - coord * b, SqrtTimesSq(radius, a * a + b * b))
  IN ~ \/ LtNegSqrt(c.z + far, radius)
       \/ LtNegSqrt(-near - c.z, radius)
       \/ side(ha, hb, c.x)
       \/ side(ha, hb, -c.x)
       \/ side(va, vb, c.y)
       \/ side(va, vb, -c.y)

(***************************************************************************)
(* src/src/io/meshLoader.ts and src/src/core/Mesh.ts                       *)
(***************************************************************************)
\* loadMesh once the response is ok and its JSON is parsed
RECURSIVE PointsLoop(_, _, _)
PointsLoop(jsonPoints, i, points) ==
  IF i > Len(jsonPoints) THEN points
  ELSE PointsLoop(jsonPoints, i + 1,
         Append(points, Vec3(jsonPoints[i].x, jsonPoints[i].y, jsonPoints[i].z)))

\* a loader that reads points and vertices only
loadMeshWithoutPolygons(body) ==
  [points |-> PointsLoop(body.points, 1, <<>>),
   vertices |-> body.vertices,
   polygons |-> <<>>]

loadMesh(body) ==
  [points |-> PointsLoop(body.points, 1, <<>>),
   vertices |-> body.vertices,
   polygons |-> IF "polygons" \in DOMAIN body THEN body.polygons ELSE <<>>]

RECURSIVE MaxLengthSq(_, _, _)
MaxLengthSq(points, i, maxSq) ==
  IF i > Len(points) THEN maxSq
  ELSE LET sq == lengthSq(points[i])
       IN MaxLengthSq(points, i + 1, IF sq > maxSq THEN sq ELSE maxSq)

\* a loop without the comparison: maxSq = sq for every point
computeBoundingRadiusOfLast(points) ==
  SqrtOf(IF points = <<>> THEN 0 ELSE lengthSq(points[Len(points)]))

computeBoundingRadius(points) == SqrtOf(MaxLengthSq(points, 1, 0))

\* new Mesh(points, vertices, polygons): the constructor stores its arguments
\* and the bounding radius; it has no failing path
NewMesh(points, vertices, polygons) ==
  [points |-> points, vertices |-> vertices, polygons |-> polygons,
   boundingRadius |-> computeBoundingRadius(points)]

fromData(data) == NewMesh(data.points, data.vertices, data.polygons)

\* MeshLike.vertices of renderHelpers.ts: the local-space positions, which
\* Mesh.ts names points
Positions(m) == m.points

(***************************************************************************)
(* src/src/core/renderHelpers.ts                                           *)
(***************************************************************************)
RECURSIVE ProjectLoop(_, _, _, _, _)
ProjectLoop(vertices, mvp, viewport, i, projected) ==
  IF i > Len(vertices) THEN projected
  ELSE LET p == projectPoint(vertices[i], mvp, viewport)
       IN ProjectLoop(vertices, mvp, viewport, i + 1,
            Append(projected,
                   IF ~Falsy(p) /\ ~p.behind THEN [x |-> p.x, y |-> p.y, z |-> 0]
                   ELSE Null))

\* a loop that forgets the behind flag: if (p) instead of if (p && !p.behind)
RECURSIVE KeepingBehindLoop(_, _, _, _, _)
KeepingBehindLoop(vertices, mvp, viewport, i, projected) ==
  IF i > Len(vertices) THEN projected
  ELSE LET p == projectPoint(vertices[i], mvp, viewport)
       IN KeepingBehindLoop(vertices, mvp, viewport, i + 1,
            Append(projected,
                   IF ~Falsy(p) THEN [x |-> p.x, y |-> p.y, z |-> 0] ELSE Null))

projectMeshVerticesKeepingBehind(m, mvp, viewport) ==
  KeepingBehindLoop(Positions(m), mvp, viewport, 1, <<>>)

projectMeshVertices(m, mvp, viewport) ==
  ProjectLoop(Positions(m), mvp, viewport, 1, <<>>)

RECURSIVE CameraSpaceLoop(_, _, _, _)
CameraSpaceLoop(vertices, viewModel, i, result) ==
  IF i > Len(vertices) THEN result
  ELSE LET v == vertices[i]
           c == transformVec4(viewModel, Vec4(v.x, v.y, v.z, 1))
       IN CameraSpaceLoop(vertices, viewModel, i + 1, Append(result, Vec3(c.x, c.y, c.z)))

transformVerticesToCameraSpace(m, viewModel) ==
  CameraSpaceLoop(Positions(m), viewModel, 1, <<>>)

RECURSIVE SumZ(_, _, _, _)
SumZ(vertexIndices, cameraSpaceVertices, k, sum) ==
  IF k > Len(vertexIndices) THEN sum
  ELSE SumZ(vertexIndices, cameraSpaceVertices, k + 1,
            sum + cameraSpaceVertices[vertexIndices[k] + 1].z)

\* a mean over the vertices the polygon names, each counted once however
\* often it is named
RECURSIVE SumZOfSet(_, _)
SumZOfSet(S, cameraSpaceVertices) ==
  IF S = {} THEN 0
  ELSE LET v == CHOOSE x \in S : TRUE
       IN cameraSpaceVertices[v + 1].z + SumZOfSet(S \ {v}, cameraSpaceVertices)

polygonDepthOfDistinctVertices(vertexIndices, cameraSpaceVertices) ==
  LET S == {vertexIndices[k] : k \in DOMAIN vertexIndices}
  IN IF S = {} THEN Frac(0, 1)
     ELSE Frac(SumZOfSet(S, cameraSpaceVertices), Cardinality(S))

polygonDepth(vertexIndices, cameraSpaceVertices) ==
  IF Len(vertexIndices) = 0 THEN Frac(0, 1)
  ELSE Frac(SumZ(vertexIndices, cameraSpaceVertices, 1, 0), Len(vertexIndices))

\* the loop of collectPolygonSegments from i on, segments pushed so far
RECURSIVE SegmentLoop(_, _, _, _)
SegmentLoop(projectedVertices, indices, i, segments) ==
  IF i >= Len(indices) THEN segments
  ELSE LET idxA == indices[i + 1]
           idxB == indices[((i + 1) % Len(indices)) + 1]
           vA == At(projectedVertices, idxA)
           vB == At(projectedVertices, idxB)
       IN IF Falsy(vA) \/ Falsy(vB) THEN NullArray
          ELSE SegmentLoop(projectedVertices, indices, i + 1,
                           Append(segments, <<vA.x, vA.y, vB.x, vB.y>>))

\* a loop that skips an edge with an invalid end, as collectLineSegments does,
\* where collectPolygonSegments gives the polygon up
RECURSIVE SkippingLoop(_, _, _, _)
SkippingLoop(projectedVertices, indices, i, segments) ==
  IF i >= Len(indices) THEN segments
  ELSE LET vA == At(projectedVertices, indices[i + 1])
           vB == At(projectedVertices, indices[((i + 1) % Len(indices)) + 1])
       IN SkippingLoop(projectedVertices, indices, i + 1,
            IF Falsy(vA) \/ Falsy(vB) THEN segments
            ELSE Append(segments, <<vA.x, vA.y, vB.x, vB.y>>))

collectPolygonSegmentsSkipping(projectedVertices, polygon) ==
  IF Len(polygon.vertexIndices) < 2 THEN <<>>
  ELSE SkippingLoop(projectedVertices, polygon.vertexIndices, 0, <<>>)

\* a loop that stops at the last vertex and leaves the polygon open: the edge
\* from the last index back to the first is never pushed
RECURSIVE OpenLoop(_, _, _, _)
OpenLoop(projectedVertices, indices, i, segments) ==
  IF i >= Len(indices) - 1 THEN segments
  ELSE LET vA == At(projectedVertices, indices[i + 1])
           vB == At(projectedVertices, indices[i + 2])
       IN IF Falsy(vA) \/ Falsy(vB) THEN NullArray
          ELSE OpenLoop(projectedVertices, indices, i + 1,
                        Append(segments, <<vA.x, vA.y, vB.x, vB.y>>))

collectPolygonSegmentsOpen(projectedVertices, polygon) ==
  IF Len(polygon.vertexIndices) < 2 THEN <<>>
  ELSE OpenLoop(projectedVertices, polygon.vertexIndices, 0, <<>>)

collectPolygonSegments(projectedVertices, polygon) ==
  IF Len(polygon.vertexIndices) < 2 THEN <<>>
  ELSE SegmentLoop(projectedVertices, polygon.vertexIndices, 0, <<>>)

\* a radius that forgets the object's scale
worldRadiusUnscaled(object) == object.mesh.boundingRadius

worldRadius(object) ==
  SqrtTimes(object.mesh.boundingRadius,
            Max2(Max2(object.scale.x, object.scale.y), object.scale.z))

Aspect(viewport) == Frac(viewport.width, viewport.height)

\* the test of renderHelpers.ts:131-140 (part_001:84-93)
InFrustum(object, cam, view, viewport) ==
  isSphereInFrustum(object.position, worldRadius(object), view,
                    cam.cotHalfFovY, Aspect(viewport), cam.near, cam.far)

\* a polygon loop that tests segments !== null only and so pushes a batch
\* with an empty segment list
RECURSIVE PolygonLoopKeepingEmpty(_, _, _, _, _, _)
PolygonLoopKeepingEmpty(o, m, cameraSpaceVertices, projectedVertices, p, batches) ==
  IF p >= Len(m.polygons) THEN batches
  ELSE LET polygon == m.polygons[p + 1]
           segments == collectPolygonSegments(projectedVertices, polygon)
       IN PolygonLoopKeepingEmpty(o, m, cameraSpaceVertices, projectedVertices, p + 1,
            IF segments # NullArray
              THEN Append(batches,
                     [batch |-> [color |-> polygon.color, segments |-> segments,
                                 depth |-> polygonDepth(polygon.vertexIndices,
                                                        cameraSpaceVertices)],
                      src |-> <<o, p>>])
              ELSE batches)

\* the loop over mesh.polygons (renderHelpers.ts:151-157) from polygon p on;
\* each pushed batch is kept with its source <<o, p>>
RECURSIVE PolygonLoop(_, _, _, _, _, _)
PolygonLoop(o, m, cameraSpaceVertices, projectedVertices, p, batches) ==
  IF p >= Len(m.polygons) THEN batches
  ELSE LET polygon == m.polygons[p + 1]
           segments == collectPolygonSegments(projectedVertices, polygon)
       IN IF segments # NullArray /\ Len(segments) > 0
            THEN PolygonLoop(o, m, cameraSpaceVertices, projectedVertices, p + 1,
                   Append(batches,
                     [batch |-> [color |-> polygon.color, segments |-> segments,
                                 depth |-> polygonDepth(polygon.vertexIndices,
                                                        cameraSpaceVertices)],
                      src |-> <<o, p>>]))
            ELSE PolygonLoop(o, m, cameraSpaceVertices, projectedVertices, p + 1, batches)

\* the loop over scene.objects (renderHelpers.ts:124-158) from object o on
RECURSIVE ObjectLoop(_, _, _, _, _, _)
ObjectLoop(scn, view, viewProj, viewport, o, batches) ==
  IF o >= Len(scn.objects) THEN batches
  ELSE LET object == scn.objects[o + 1]
       IN IF ~InFrustum(object, scn.camera, view, viewport)
            THEN ObjectLoop(scn, view, viewProj, viewport, o + 1, batches)
            ELSE LET model == getModelMatrix(object)
                     viewModel == multiply(view, model)
                     mvp == multiply(viewProj, model)
                     cameraSpaceVertices ==
                       transformVerticesToCameraSpace(object.mesh, viewModel)
                     projectedVertices ==
                       projectMeshVertices(object.mesh, mvp, viewport)
                 IN ObjectLoop(scn, view, viewProj, viewport, o + 1,
                      PolygonLoop(o, object.mesh, cameraSpaceVertices,
                                  projectedVertices, 0, batches))

\* a comparator that orders nearest first: b.depth - a.depth
byDepthDescending(a, b) == FracCmp(b.depth, a.depth)

\* a comparator that never answers 0: a.depth < b.depth ? -1 : 1
byDepthNoTie(a, b) == IF FracCmp(a.depth, b.depth) < 0 THEN -1 ELSE 1

\* the comparator (a, b) => a.depth - b.depth: its sign
byDepth(a, b) == FracCmp(a.depth, b.depth)

\* Array.prototype.sort with byDepth: a stable sort, here by insertion
RECURSIVE InsertSorted(_, _, _)
InsertSorted(sorted, e, k) ==
  IF k >= 1 /\ byDepth(sorted[k].batch, e.batch) > 0
    THEN InsertSorted(sorted, e, k - 1)
    ELSE SubSeq(sorted, 1, k) \o <<e>> \o SubSeq(sorted, k + 1, Len(sorted))

RECURSIVE SortLoop(_, _, _)
SortLoop(batches, i, sorted) ==
  IF i > Len(batches) THEN sorted
  ELSE SortLoop(batches, i + 1, InsertSorted(sorted, batches[i], Len(sorted)))

sort(batches) == SortLoop(batches, 1, <<>>)

\* objects with their mesh's polygon list reversed in place
RECURSIVE ReversePolygons(_, _, _)
ReversePolygons(objects, i, result) ==
  IF i > Len(objects) THEN result
  ELSE LET ps == objects[i].mesh.polygons
           reversed == [k \in 1..Len(ps) |-> ps[Len(ps) + 1 - k]]
       IN ReversePolygons(objects, i + 1,
            Append(result, [objects[i] EXCEPT !.mesh.polygons = reversed]))

\* an orchestrator that sorts each mesh's polygon list in place, farthest last
projectSceneToPolygonWireframeSortingMeshes(scn, viewProj, viewport) ==
  LET view == getViewMatrix(scn.camera)
      batches == ObjectLoop(scn, view, viewProj, viewport, 0, <<>>)
  IN [batches |-> sort(batches),
      scene |-> [scn EXCEPT !.objects = ReversePolygons(scn.objects, 1, <<>>)]]

\* an orchestrator that reorders scene.objects in place
projectSceneToPolygonWireframeSortingObjects(scn, viewProj, viewport) ==
  LET view == getViewMatrix(scn.camera)
      batches == ObjectLoop(scn, view, viewProj, viewport, 0, <<>>)
  IN [batches |-> sort(batches),
      scene |-> [scn EXCEPT !.objects =
                   [k \in 1..Len(scn.objects) |-> scn.objects[Len(scn.objects) + 1 - k]]]]

\* projectSceneToPolygonWireframe: the array it returns and the scene as the
\* call leaves it (the function writes to no field of its arguments)
projectSceneToPolygonWireframe(scn, viewProj, viewport) ==
  LET view == getViewMatrix(scn.camera)
      batches == ObjectLoop(scn, view, viewProj, viewport, 0, <<>>)
  IN [batches |-> sort(batches), scene |-> scn]

(***************************************************************************)
(* src/unnamed/part_001: the edge-list orchestrator src/src/index.ts calls *)
(***************************************************************************)
RECURSIVE PointLoop(_, _, _, _, _)
PointLoop(points, mvp, viewport, i, projectedPoints) ==
  IF i > Len(points) THEN projectedPoints
  ELSE LET projected == projectPoint(points[i], mvp, viewport)
       IN PointLoop(points, mvp, viewport, i + 1,
            Append(projectedPoints,
                   IF ~Falsy(projected) /\ ~projected.behind
                     THEN [x |-> projected.x, y |-> projected.y, z |-> 0]
                     ELSE Null))

projectMeshPoints(m, mvp, viewport) == PointLoop(m.points, mvp, viewport, 1, <<>>)

RECURSIVE LineLoop(_, _, _, _)
LineLoop(projectedPoints, vertices, k, lineSegments) ==
  IF k > Len(vertices) THEN lineSegments
  ELSE LET pointA == At(projectedPoints, vertices[k][1])
           pointB == At(projectedPoints, vertices[k][2])
       IN LineLoop(projectedPoints, vertices, k + 1,
            IF ~Falsy(pointA) /\ ~Falsy(pointB)
              THEN Append(lineSegments, <<pointA.x, pointA.y, pointB.x, pointB.y>>)
              ELSE lineSegments)

collectLineSegments(projectedPoints, vertices) ==
  LineLoop(projectedPoints, vertices, 1, <<>>)

RECURSIVE LineObjectLoop(_, _, _, _, _, _)
LineObjectLoop(scn, view, viewProj, viewport, o, allSegments) ==
  IF o >= Len(scn.objects) THEN allSegments
  ELSE LET object == scn.objects[o + 1]
       IN IF ~InFrustum(object, scn.camera, view, viewport)
            THEN LineObjectLoop(scn, view, viewProj, viewport, o + 1, allSegments)
            ELSE LET mvp == multiply(viewProj, getModelMatrix(object))
                     projectedPoints == projectMeshPoints(object.mesh, mvp, viewport)
                 IN LineObjectLoop(scn, view, viewProj, viewport, o + 1,
                      allSegments \o
                        collectLineSegments(projectedPoints, object.mesh.vertices))

projectSceneToLineSegments(scn, viewProj, viewport) ==
  LineObjectLoop(scn, getViewMatrix(scn.camera), viewProj, viewport, 0, <<>>)

(***************************************************************************)
(* Inputs                                                                  *)
(***************************************************************************)
\* the canvas of the model: aspect 2
viewport == [width |-> 8, height |-> 4]

\* the points and edges of the mesh file: a triangle in the plane z = -1 and
\* an apex on the other side of the origin
JsonPoints ==
  << [x |-> -1, y |-> 0, z |-> -1], [x |-> 1, y |-> 0, z |-> -1],
     [x |-> 0, y |-> 1, z |-> -1], [x |-> 0, y |-> 0, z |-> 1] >>

JsonVertices == << <<0, 1>>, <<1, 2>>, <<2, 0>>, <<1, 3>> >>

\* polygons a mesh file may list: a triangle, an edge to the apex, a single
\* index, an index past the last point
PolygonCatalog ==
  { Polygon("green", <<2, 1, 0>>), Polygon("blue", <<1, 3>>),
    Polygon("red", <<3>>), Polygon("blue", <<1, 4>>) }

\* the sequences over S of length n, and of length at most n
RECURSIVE SeqsOfLen(_, _)
SeqsOfLen(S, n) ==
  IF n = 0 THEN {<<>>} ELSE {Append(q, e) : q \in SeqsOfLen(S, n - 1), e \in S}

SeqsUpTo(S, n) == UNION {SeqsOfLen(S, k) : k \in 0..n}

MeshJSONs ==
  {[points |-> JsonPoints, vertices |-> JsonVertices, polygons |-> ps] :
     ps \in SeqsUpTo(PolygonCatalog, MaxPolys)}
  \cup {[points |-> JsonPoints, vertices |-> JsonVertices],
        [points |-> <<>>, vertices |-> <<>>],
        [points |-> JsonPoints, vertices |-> JsonVertices,
         polygons |-> <<Polygon("red", <<1, 3, 1>>)>>]}

\* where and at which scale an object is put into the scene
Placements ==
  { [position |-> Vec3(0, 0, -3), scale |-> Vec3(1, 1, 1)],
    [position |-> Vec3(4, 0, -3), scale |-> Vec3(1, 1, 1)],
    [position |-> Vec3(0, 0, 0), scale |-> Vec3(1, 1, 2)] }

\* camera poses the input controller may produce: at the origin looking down
\* -z, and behind the objects, turned half round
CameraPoses ==
  { [position |-> Vec3(0, 0, 0), yaw |-> 0],
    [position |-> Vec3(0, 0, -9), yaw |-> 2] }

\* rotation angles the animation may produce, in quarter turns
Angles == {0, 1}

\* the camera main() starts with: tan(fovY / 2) = 1/2, near 2, far 6
InitialCamera == Camera(Vec3(0, 0, 0), 0, 2, 2, 6)

(***************************************************************************)
(* src/src/index.ts                                                        *)
(***************************************************************************)
\* scene.add for each placement of ps in turn
RECURSIVE AddAll(_, _, _, _)
AddAll(objects, m, ps, k) ==
  IF k > Len(ps) THEN objects
  ELSE AddAll(Append(objects, Object3D(m, ps[k].position, Vec3(0, 0, 0), ps[k].scale)),
              m, ps, k + 1)

\* object.rotation.y = angle for each object of the scene
RECURSIVE Animate(_, _, _, _)
Animate(objects, angle, i, result) ==
  IF i > Len(objects) THEN result
  ELSE Animate(objects, angle, i + 1,
               Append(result, [objects[i] EXCEPT !.rotation.y = angle]))

\* projection.multiply(view)
ViewProj(scn) ==
  multiply(getProjectionMatrix(scn.camera, Aspect(viewport)), getViewMatrix(scn.camera))

Init ==
  /\ pc = "load"
  /\ meshData = Null
  /\ mesh = Null
  /\ scene = Null
  /\ lines = NullArray
  /\ called = "none"
  /\ out = <<>>
  /\ origin = <<>>
  /\ error = Null
  /\ canvas = <<>>
  /\ pending = 0
  /\ steps = <<>>
  /\ json = Null

\* await loadMesh(...) resolves
LoadMesh ==
  /\ pc = "load"
  /\ \E body \in MeshJSONs :
       /\ json' = body
       /\ meshData' = loadMesh(body)
  /\ pc' = "loaded"
  /\ UNCHANGED <<mesh, scene, lines, called, out, origin, error, canvas, pending, steps>>

\* the ways loadMesh rejects: fetch rejects, the response is not ok (the
\* throw of meshLoader.ts:30), response.json() rejects
LoadErrors ==
  { [message |-> "fetch rejected"], [message |-> "response not ok"],
    [message |-> "json rejected"] }

\* a main() whose first requestAnimationFrame sits after the try block
LoadFailsScheduling ==
  /\ pc = "load"
  /\ \E e \in LoadErrors : error' = e
  /\ pc' = "failed"
  /\ pending' = pending + 1
  /\ UNCHANGED <<meshData, mesh, scene, lines, called, out, origin, canvas, steps, json>>

\* await loadMesh(...) rejects: the catch block logs the error, nothing else
\* of main() runs
LoadFails ==
  /\ pc = "load"
  /\ \E e \in LoadErrors : error' = e
  /\ pc' = "failed"
  /\ UNCHANGED <<meshData, mesh, scene, lines, called, out, origin,
                 canvas, pending, steps, json>>

\* the rest of main()'s try block: the mesh, the scene and its objects, the
\* first requestAnimationFrame
Setup ==
  /\ pc = "loaded"
  /\ \E ps \in SeqsOfLen(Placements, NumObjects) :
       LET m == fromData(meshData)
       IN /\ mesh' = m
          /\ scene' = [camera |-> InitialCamera, objects |-> AddAll(<<>>, m, ps, 1)]
  /\ pc' = "run"
  /\ pending' = pending + 1
  /\ UNCHANGED <<meshData, lines, called, out, origin, error, canvas, steps, json>>

\* input.updateCamera(yaw, pitch, camera, deltaTime): the camera at the pose
\* the input gives it
updateCamera(scn, pose) ==
  [scn EXCEPT !.camera.position = pose.position, !.camera.yaw = pose.yaw]

\* a callback that computes viewProj before it updates the camera
renderStaleMatrices(scn, canv, pose, angle) ==
  LET viewProj == ViewProj(scn)
      turned == updateCamera(scn, pose)
      moved == [turned EXCEPT !.objects = Animate(turned.objects, angle, 1, <<>>)]
      lineSegments == projectSceneToLineSegments(moved, viewProj, viewport)
  IN [scene |-> moved, lines |-> lineSegments, canvas |-> <<lineSegments>>,
      requested |-> 1,
      steps |-> <<"clear", "viewProj", "updateCamera", "rotate", "project",
                  "draw", "request">>]

\* a callback that never clears the canvas
renderWithoutClear(scn, canv, pose, angle) ==
  LET turned == updateCamera(scn, pose)
      moved == [turned EXCEPT !.objects = Animate(turned.objects, angle, 1, <<>>)]
      lineSegments == projectSceneToLineSegments(moved, ViewProj(moved), viewport)
  IN [scene |-> moved, lines |-> lineSegments,
      canvas |-> Append(canv, lineSegments),
      requested |-> 1,
      steps |-> <<"updateCamera", "rotate", "viewProj", "project", "draw", "request">>]

\* render(currentTime) on scene scn and a canvas showing canv, with the pose
\* the input gives and the angle the clock gives: the scene, the segment
\* list and the canvas it leaves, the callbacks it requested, its steps
render(scn, canv, pose, angle) ==
  LET cleared == <<>>
      turned == updateCamera(scn, pose)
      moved == [turned EXCEPT !.objects = Animate(turned.objects, angle, 1, <<>>)]
      viewProj == ViewProj(moved)
      lineSegments == projectSceneToLineSegments(moved, viewProj, viewport)
  IN [scene |-> moved, lines |-> lineSegments,
      canvas |-> Append(cleared, lineSegments),
      requested |-> 1,
      steps |-> <<"clear", "updateCamera", "rotate", "viewProj", "project",
                  "draw", "request">>]

\* one run of the render callback, which runs to completion
Frame ==
  /\ pc = "run"
  /\ pending > 0
  /\ \E pose \in CameraPoses, angle \in Angles :
       \E r \in {render(scene, canvas, pose, angle)} :
          /\ scene' = r.scene
          /\ lines' = r.lines
          /\ canvas' = r.canvas
          /\ pending' = pending - 1 + r.requested
          /\ steps' = r.steps
  /\ called' = "none"
  /\ out' = <<>>
  /\ origin' = <<>>
  /\ UNCHANGED <<pc, meshData, mesh, error, json>>

\* a call projectSceneToPolygonWireframe(scene, viewProj, viewport) between
\* two frames
CallPolygonWireframe ==
  /\ pc = "run"
  /\ \E r \in {projectSceneToPolygonWireframe(scene, ViewProj(scene), viewport)} :
        /\ out' = [i \in 1..Len(r.batches) |-> r.batches[i].batch]
        /\ origin' = [i \in 1..Len(r.batches) |-> r.batches[i].src]
        /\ scene' = r.scene
  /\ called' = IF called = "none" THEN "once" ELSE "again"
  /\ UNCHANGED <<pc, meshData, mesh, lines, error, canvas, pending, steps, json>>

Next == LoadMesh \/ LoadFails \/ Setup \/ Frame \/ CallPolygonWireframe

Spec == Init /\ [][Next]_vars

(***************************************************************************)
(* Properties                                                              *)
(***************************************************************************)
\* out holds what the orchestrator returns for the scene as it now is
Rendered == pc = "run" /\ called # "none"

Batches == 1..Len(out)

ObjectIds == IF pc = "run" THEN 0..(Len(scene.objects) - 1) ELSE {}

PolygonIds(o) == 0..(Len(scene.objects[o + 1].mesh.polygons) - 1)

PolygonOf(o, p) == scene.objects[o + 1].mesh.polygons[p + 1]

Sources == {origin[i] : i \in Batches}

\* <<object, polygon>> s was inserted before t
InsertedBefore(s, t) == s[1] < t[1] \/ (s[1] = t[1] /\ s[2] < t[2])

\* the camera-space and the projected vertices of object o in the current scene
CameraSpaceOf(o) ==
  transformVerticesToCameraSpace(scene.objects[o + 1].mesh,
    multiply(getViewMatrix(scene.camera), getModelMatrix(scene.objects[o + 1])))

ProjectedOf(o) ==
  projectMeshVertices(scene.objects[o + 1].mesh,
    multiply(ViewProj(scene), getModelMatrix(scene.objects[o + 1])), viewport)

C2_TiesInInsertionOrder ==
  \A i, j \in Batches :
    (i < j /\ FracCmp(out[i].depth, out[j].depth) = 0)
      => InsertedBefore(origin[i], origin[j])

\* a tie between two objects and a tie within one object, in one output
C2_Witness ==
  /\ Rendered
  /\ \E i, j \in Batches :
       i < j /\ out[i].depth = out[j].depth /\ origin[i][1] < origin[j][1]
  /\ \E i, j \in Batches :
       i < j /\ out[i].depth = out[j].depth /\ origin[i][1] = origin[j][1]

\* the polygon faces away from the camera: n = (v1 - v0) x (v2 - v0) is not
\* the zero vector and dot(n, v0) >= 0
FacesAway(o, p) ==
  LET idx == PolygonOf(o, p).vertexIndices
      cs == CameraSpaceOf(o)
      v0 == cs[idx[1] + 1]
      v1 == cs[idx[2] + 1]
      v2 == cs[idx[3] + 1]
      n == cross(sub(v1, v0), sub(v2, v0))
  IN /\ Len(idx) >= 3
     /\ n # Vec3(0, 0, 0)
     /\ dot(n, v0) >= 0

\* C3: no returned batch comes from a polygon that faces away from the camera
C3_BackfacesDiscarded ==
  Rendered => \A i \in Batches : ~FacesAway(origin[i][1], origin[i][2])

\* polygon p of object o names a vertex whose projection is null
HasNullVertex(o, p) ==
  \E k \in DOMAIN PolygonOf(o, p).vertexIndices :
    At(ProjectedOf(o), PolygonOf(o, p).vertexIndices[k]) = Null

SphereVisible(o) ==
  LET object == scene.objects[o + 1]
      s == object.scale
      maxScale == IF s.x >= s.y /\ s.x >= s.z THEN s.x
                  ELSE IF s.y >= s.z THEN s.y ELSE s.z
  IN isSphereInFrustum(object.position,
       [sqrtOf |-> object.mesh.boundingRadius.sqrtOf * maxScale * maxScale],
       getViewMatrix(scene.camera), scene.camera.cotHalfFovY,
       Frac(viewport.width, viewport.height), scene.camera.near, scene.camera.far)

\* polygon p of object o has at least 2 indices, all projected validly
Drawable(o, p) ==
  /\ Len(PolygonOf(o, p).vertexIndices) >= 2
  /\ \A k \in DOMAIN PolygonOf(o, p).vertexIndices :
       ~Falsy(At(ProjectedOf(o), PolygonOf(o, p).vertexIndices[k]))

\* the edges of object o's mesh with both ends projected validly
ValidEdges(o) ==
  {k \in DOMAIN scene.objects[o + 1].mesh.vertices :
     /\ ~Falsy(At(ProjectedOf(o), scene.objects[o + 1].mesh.vertices[k][1]))
     /\ ~Falsy(At(ProjectedOf(o), scene.objects[o + 1].mesh.vertices[k][2]))}

\* the number of valid edges of the objects in S that pass the sphere test
RECURSIVE EdgeTotal(_)
EdgeTotal(S) ==
  IF S = {} THEN 0
  ELSE LET o == CHOOSE x \in S : TRUE
       IN (IF SphereVisible(o) THEN Cardinality(ValidEdges(o)) ELSE 0)
            + EdgeTotal(S \ {o})

\* C5: an object is culled exactly when the sphere test on its position and
\* scaled bounding radius fails; a culled object yields no batch and no
\* segment, and every other object is processed in full
C5_CullingBySphereTest ==
  /\ Rendered =>
       \A o \in ObjectIds : \A p \in PolygonIds(o) :
         <<o, p>> \in Sources <=> (SphereVisible(o) /\ Drawable(o, p))
  /\ (pc = "run" /\ lines # NullArray) =>
       Len(lines) = EdgeTotal(ObjectIds)

\* the first object is culled, has a polygon, and the object after it is drawn
C5_Witness ==
  /\ Rendered
  /\ ~SphereVisible(0)
  /\ PolygonIds(0) # {}
  /\ \E i \in Batches : origin[i][1] = 1
  /\ lines # NullArray
  /\ Len(lines) > 0

\* C6: a mesh that has been built names no vertex outside [0, vertexCount):
\* data with such an index fails construction and never reaches a render
C6_OutOfRangeIndexFailsConstruction ==
  mesh # Null =>
    \A p \in DOMAIN mesh.polygons :
      \A k \in DOMAIN mesh.polygons[p].vertexIndices :
        /\ mesh.polygons[p].vertexIndices[k] >= 0
        /\ mesh.polygons[p].vertexIndices[k] < Len(mesh.points)

\* C7: a returned record carries color and segments and nothing else
C7_DepthStripped ==
  \A i \in Batches : DOMAIN out[i] = {"color", "segments"}

ExpectedSegment(projected, idx, i) ==
  LET a == At(projected, idx[i + 1])
      b == At(projected, idx[((i + 1) % Len(idx)) + 1])
  IN <<a.x, a.y, b.x, b.y>>

\* C10: for a polygon with n >= 2 indices that all project validly,
\* collectPolygonSegments returns n segments, the i-th from indices[i] to
\* indices[(i + 1) mod n]
C10_ClosedBoundary ==
  \A o \in ObjectIds : \A p \in PolygonIds(o) :
    Drawable(o, p) =>
      LET idx == PolygonOf(o, p).vertexIndices
          segments == collectPolygonSegments(ProjectedOf(o), PolygonOf(o, p))
      IN /\ segments # NullArray
         /\ Len(segments) = Len(idx)
         /\ \A i \in 0..(Len(idx) - 1) :
              segments[i + 1] = ExpectedSegment(ProjectedOf(o), idx, i)

\* a drawn 2-index polygon, whose batch holds A-B and B-A, and a drawn triangle
C10_Witness ==
  /\ Rendered
  /\ \E i \in Batches :
       /\ Len(PolygonOf(origin[i][1], origin[i][2]).vertexIndices) = 2
       /\ Len(out[i].segments) = 2
       /\ out[i].segments[1][1] = out[i].segments[2][3]
       /\ out[i].segments[1][3] = out[i].segments[2][1]
       /\ out[i].segments[1] # out[i].segments[2]
  /\ \E i \in Batches :
       /\ Len(PolygonOf(origin[i][1], origin[i][2]).vertexIndices) = 3
       /\ Len(out[i].segments) = 3

\* C11: once loadMesh has rejected there is no MeshData, no Mesh and no Scene,
\* no orchestrator has run, nothing is drawn and no frame is requested; a
\* frame is requested or run only after a load that resolved
C11_FailedLoadRunsNothing ==
  /\ error # Null =>
       /\ pc = "failed"
       /\ meshData = Null /\ mesh = Null /\ scene = Null
       /\ lines = NullArray /\ called = "none" /\ out = <<>>
       /\ canvas = <<>> /\ steps = <<>> /\ pending = 0
  /\ (pending > 0 \/ lines # NullArray \/ called # "none" \/ mesh # Null) =>
       (meshData # Null /\ error = Null)

\* loadMesh has rejected because the response was not ok
C11_Witness == pc = "failed" /\ error = [message |-> "response not ok"]

\* the point (x, y) lies in [0, viewport.width] x [0, viewport.height]
InViewport(x, y) ==
  /\ FracLe(Frac(0, 1), x) /\ FracLe(x, Frac(viewport.width, 1))
  /\ FracLe(Frac(0, 1), y) /\ FracLe(y, Frac(viewport.height, 1))

\* the clip-space position of local vertex v (0-based) of object o
ClipOf(o, v) ==
  LET p == Positions(scene.objects[o + 1].mesh)[v + 1]
  IN transformVec4(multiply(ViewProj(scene), getModelMatrix(scene.objects[o + 1])),
                   Vec4(p.x, p.y, p.z, 1))

\* the clip-space position lies between the four side planes of the frustum
InsideSidePlanes(clip) ==
  /\ -clip.w <= clip.x /\ clip.x <= clip.w
  /\ -clip.w <= clip.y /\ clip.y <= clip.w

\* C12 as stated: every endpoint of every segment of every returned batch
\* lies within the viewport rectangle
C12_EndpointsInViewport ==
  \A i \in Batches : \A k \in DOMAIN out[i].segments :
    /\ InViewport(out[i].segments[k][1], out[i].segments[k][2])
    /\ InViewport(out[i].segments[k][3], out[i].segments[k][4])

\* C12 amended: the start of segment k of a returned batch belongs to a
\* vertex in front of the eye and between the near and far planes, and lies
\* within the viewport rectangle exactly when the vertex lies between the
\* side planes of the frustum (every vertex of a batch starts a segment)
C12_EndpointsInViewportIffInsideSidePlanes ==
  \A i \in Batches : \A k \in DOMAIN out[i].segments :
    LET idx == PolygonOf(origin[i][1], origin[i][2]).vertexIndices
        clip == ClipOf(origin[i][1], idx[k])
        seg == out[i].segments[k]
        next == out[i].segments[(k % Len(idx)) + 1]
    IN /\ clip.w > 0 /\ -clip.w <= clip.z /\ clip.z <= clip.w
       /\ InViewport(seg[1], seg[2]) <=> InsideSidePlanes(clip)
       /\ seg[3] = next[1] /\ seg[4] = next[2]

\* a returned batch with an endpoint outside the viewport and another with
\* an endpoint strictly inside it
C12_Witness ==
  /\ Rendered
  /\ \E i \in Batches : \E k \in DOMAIN out[i].segments :
       ~InViewport(out[i].segments[k][1], out[i].segments[k][2])
  /\ \E i \in Batches : \E k \in DOMAIN out[i].segments :
       /\ InViewport(out[i].segments[k][1], out[i].segments[k][2])
       /\ out[i].segments[k][1] \notin {Frac(0, 1), Frac(viewport.width, 1)}

\* how often the last callback did step name, and where it did it first
StepCount(name) == Cardinality({k \in DOMAIN steps : steps[k] = name})

StepAt(name) == CHOOSE k \in DOMAIN steps : steps[k] = name

\* a frame has run
FrameDone == pc = "run" /\ lines # NullArray

\* the segment list is the one the orchestrator gives for the scene as the
\* frame left it, with the matrices of that scene's camera
LinesOfThisFrame ==
  lines = projectSceneToLineSegments(scene, ViewProj(scene), viewport)

\* C13: in a frame the camera update and the pose mutation happen once each,
\* before viewProj is computed and the orchestrator runs, every object has
\* the frame's angle, and the orchestrator's result is that of the frame's
\* own poses and matrices
C13_PosesBeforeMatrices ==
  FrameDone =>
    /\ StepCount("updateCamera") = 1 /\ StepCount("rotate") = 1
    /\ StepCount("viewProj") = 1 /\ StepCount("project") = 1
    /\ StepAt("updateCamera") < StepAt("viewProj")
    /\ StepAt("rotate") < StepAt("viewProj")
    /\ StepAt("viewProj") < StepAt("project")
    /\ \E angle \in Angles :
         \A i \in DOMAIN scene.objects : scene.objects[i].rotation.y = angle
    /\ LinesOfThisFrame

\* a frame that moved the camera away from where main() put it, turned the
\* objects and drew something
C13_Witness ==
  /\ FrameDone
  /\ scene.camera.position # InitialCamera.position
  /\ scene.objects[1].rotation.y = 1
  /\ Len(lines) > 0

\* r is the largest distance from the origin to a point of points, 0 when
\* there is none
IsMaxDistance(r, points) ==
  /\ \A i \in DOMAIN points : lengthSq(points[i]) <= r.sqrtOf
  /\ IF points = <<>> THEN r.sqrtOf = 0
     ELSE \E i \in DOMAIN points : lengthSq(points[i]) = r.sqrtOf

\* C14: the bounding radius of the mesh is the largest distance from the
\* local origin to one of its points, 0 for a mesh without points, and the
\* mesh of every object of the scene still has it after any frame or call
C14_BoundingRadiusIsMaxDistance ==
  mesh # Null =>
    /\ IsMaxDistance(mesh.boundingRadius, mesh.points)
    /\ pc = "run" =>
         \A i \in DOMAIN scene.objects :
           /\ scene.objects[i].mesh.points = mesh.points
           /\ scene.objects[i].mesh.boundingRadius = mesh.boundingRadius

\* a mesh whose farthest point is not its last one, after a frame and a call
C14_Witness ==
  /\ Rendered
  /\ lines # NullArray
  /\ mesh.points # <<>>
  /\ lengthSq(mesh.points[Len(mesh.points)]) < mesh.boundingRadius.sqrtOf

\* a mesh without points has been built and drawn
EmptyMeshDrawn ==
  /\ FrameDone
  /\ mesh.points = <<>>
  /\ mesh.boundingRadius = SqrtOf(0)

NoPolygonsFieldBuilt == pc = "run" /\ "polygons" \notin DOMAIN json

\* the camera-space z of the vertices idx[1..k] of object o, added up with
\* every occurrence counted
RECURSIVE ZTotal(_, _, _)
ZTotal(o, idx, k) ==
  IF k = 0 THEN 0 ELSE ZTotal(o, idx, k - 1) + CameraSpaceOf(o)[idx[k] + 1].z

\* C16: the depth of a returned batch is the mean of the camera-space z of
\* its polygon's vertexIndices, every occurrence counted, taken from the
\* camera-space vertices of the batch's own object
C16_DepthIsMeanZ ==
  \A i \in Batches :
    LET idx == PolygonOf(origin[i][1], origin[i][2]).vertexIndices
    IN out[i].depth.n * Len(idx) = out[i].depth.d * ZTotal(origin[i][1], idx, Len(idx))

\* a returned batch whose polygon names a vertex twice, its depth not an
\* integer, from an object turned by the animation
C16_Witness ==
  /\ Rendered
  /\ \E i \in Batches :
       LET idx == PolygonOf(origin[i][1], origin[i][2]).vertexIndices
       IN /\ Cardinality({idx[k] : k \in DOMAIN idx}) < Len(idx)
          /\ out[i].depth.d > 1
          /\ scene.objects[origin[i][1] + 1].rotation.y = 1

\* the positions of out that hold a batch built from polygon p of object o
BatchesOf(o, p) == {i \in Batches : origin[i] = <<o, p>>}

\* C17: the output holds one batch for each polygon of at least 2 indices,
\* all projected validly, of an object that passes the sphere test, and no
\* other batch; a batch has its polygon's color and the polygon's closed
\* boundary as its segments, never an empty list
C17_OneBatchPerDrawablePolygon ==
  Rendered =>
    /\ \A o \in ObjectIds : \A p \in PolygonIds(o) :
         Cardinality(BatchesOf(o, p)) =
           IF SphereVisible(o) /\ Drawable(o, p) THEN 1 ELSE 0
    /\ \A i \in Batches :
         /\ origin[i][1] \in ObjectIds
         /\ origin[i][2] \in PolygonIds(origin[i][1])
         /\ out[i].color = PolygonOf(origin[i][1], origin[i][2]).color
         /\ Len(out[i].segments) = Len(PolygonOf(origin[i][1], origin[i][2]).vertexIndices)
         /\ Len(out[i].segments) >= 2

\* an object that passes the sphere test with a polygon of fewer than 2
\* indices, which gave no batch, and a polygon that gave one, in an output
\* whose order is not the order of collection
C17_Witness ==
  /\ Rendered
  /\ \E o \in ObjectIds : \E p, q \in PolygonIds(o) :
       /\ SphereVisible(o)
       /\ Len(PolygonOf(o, p).vertexIndices) < 2
       /\ BatchesOf(o, p) = {}
       /\ BatchesOf(o, q) # {}
  /\ \E i, j \in Batches : i < j /\ InsertedBefore(origin[j], origin[i])

\* C18: once main() has set the scene up, one frame callback is pending at
\* any time, never more, so the loop goes on; a callback clears the canvas
\* once, before it draws, so the canvas shows that frame's segments and
\* nothing older, and requests one next frame, after it drew
C18_OneFramePendingCanvasCleared ==
  /\ pending <= 1
  /\ pc = "run" => pending = 1
  /\ FrameDone =>
       /\ canvas = <<lines>>
       /\ StepCount("clear") = 1 /\ StepCount("draw") = 1 /\ StepCount("request") = 1
       /\ StepAt("clear") < StepAt("draw")
       /\ StepAt("draw") < StepAt("request")

\* a frame has drawn segments on the canvas and the next one is requested
C18_Witness ==
  /\ FrameDone
  /\ Len(lines) > 0
  /\ canvas # <<>>
  /\ pending = 1
  /\ steps # <<>>

====
